---- MODULE Spec2Model ----
(***************************************************************************)
(* TX Blueprint System (TXB): the node registry, the bytecode program and  *)
(* the stack machine of src/TXBlueprintSystem.cpp.                         *)
(*                                                                         *)
(* Floats are modelled by small integers (2.0, 3.0, 4.0, 5.0, 20.0 and    *)
(* their sums and products are exact in binary floating point).            *)
(***************************************************************************)
EXTENDS Integers, Sequences, FiniteSets, TLC

\* ------------------------------------------------------------------------
\* Bounds of the model
\* ------------------------------------------------------------------------

\* longest Instructions sequence handed to Execute
MaxProgLen == 3

\* ------------------------------------------------------------------------
\* Program constants
\* ------------------------------------------------------------------------

TX_OP_ADD_FLOAT == 1

TX_OP_MUL_FLOAT == 2

TX_OP_PRINT_FLOAT == 3

\* TXValue Stack[64]
StackCapacity == 64

\* the opcodes a program or a registration may use (a slice of uint8_t)
OpCodes == TX_OP_ADD_FLOAT .. TX_OP_PRINT_FLOAT

TXValueType == {"None", "Int", "Float", "Bool", "Vector3", "Pointer"}

\* the callables a TXNodeFunction can hold: the three lambdas of
\* RegisterCoreNodes, or nothing (a default-constructed std::function)
AddFloat == "AddFloat"

MulFloat == "MulFloat"

PrintFloat == "PrintFloat"

Empty == "Empty"

Behaviours == {AddFloat, MulFloat, PrintFloat}

\* payload of a TXValue whose union was never written
Indeterminate == "Indeterminate"

\* a default-initialised TXValue: Type = None, union left unwritten
DefaultValue == [Type |-> "None", Float |-> Indeterminate]

\* TXValue with the bits of its union read as a float
FloatValue(f) == [Type |-> "Float", Float |-> f]

\* ------------------------------------------------------------------------
\* Memory around the Stack array
\* ------------------------------------------------------------------------

\* lowest index &Stack[SP - 2] can reach within MaxProgLen dispatches
LowIndex == 0 - (MaxProgLen + 1)

StackSlots == 0 .. (StackCapacity - 1)

MemIndex == LowIndex .. (StackCapacity - 1)

\* what the memory below Stack[0] may hold when Execute is entered: it is
\* not part of the array, so its content is whatever the frame left there
GarbageValues == << [Type |-> "Float", Float |-> 3],
                    [Type |-> "Float", Float |-> 2],
                    [Type |-> "Float", Float |-> 4],
                    [Type |-> "None",  Float |-> 7] >>

\* the layouts of that garbage a call is entered with: the values above in
\* turn, starting at the first or at the second of them
GarbageShifts == 0 .. 1

\* the memory seen through Stack[i] on entry: slots 0..63 default
\* initialised (Type = None, the union holding whatever bits were there),
\* the cells below them holding garbage
FreshStack(shift) ==
    [i \in MemIndex |->
        IF i \in StackSlots
        THEN [DefaultValue EXCEPT
                 !.Float = GarbageValues[((i + shift) % Len(GarbageValues)) + 1].Float]
        ELSE GarbageValues[((((0 - i) - 1) + shift) % Len(GarbageValues)) + 1]]

IdleStack == [i \in MemIndex |-> DefaultValue]

\* ------------------------------------------------------------------------
\* State
\* ------------------------------------------------------------------------

VARIABLES
    NDEBUG,          \* build flavour: TRUE when assert() is compiled out
    NodeFunctions,   \* TXNodeRegistry::NodeFunctions, opcode -> callable
    state,           \* position of the Execute call / of the process
    Instructions,    \* Bytecode.Instructions of the running call
    IP,              \* IP - Instructions.data()
    SP,              \* int SP
    Stack,           \* Stack[i] for i in MemIndex
    dispatched,      \* history: node behaviours invoked by this call
    accessed,        \* history: Stack indices read or written by this call
    printed,         \* history: floats printed by this call
    lookupResult,    \* what the last direct Get(opcode) returned, if any
    overwrote,       \* history: the last RegisterNode replaced a behaviour
    lastRegistered,  \* history: opcode -> fn of the latest RegisterNode
    regAtCall,       \* history: NodeFunctions when Execute was entered
    example,         \* history: the call was made by ExampleBlueprint
    other            \* the locals of a second Execute call of the same
                     \* program, made from another thread

vars == << NDEBUG, NodeFunctions, state, Instructions, IP, SP, Stack,
           dispatched, accessed, printed, lookupResult, overwrote,
           lastRegistered, regAtCall, example, other >>

execVars == << Instructions, IP, SP, Stack, dispatched, accessed, printed,
               regAtCall, example, other >>

None == "none"

\* std::unordered_map with no element
EmptyMap == [o \in {} |-> Empty]

Programs == UNION {[1 .. n -> OpCodes] : n \in 0 .. MaxProgLen}

\* ------------------------------------------------------------------------
\* TXNodeRegistry
\* ------------------------------------------------------------------------

RegisterNodeMap_Reset(nf, opcode, fn) == [o \in {opcode} |-> fn]

RegisterNodeMap_FirstWins(nf, opcode, fn) ==
    [o \in (DOMAIN nf) \cup {opcode} |-> IF o \in DOMAIN nf THEN nf[o] ELSE fn]

\* NodeFunctions[opcode] = fn
RegisterNodeMap(nf, opcode, fn) ==
    [o \in (DOMAIN nf) \cup {opcode} |-> IF o = opcode THEN fn ELSE nf[o]]

\* assert(NodeFunctions.count(opcode)) fails: only when assert is compiled in
GetAborts(nf, opcode) == (~NDEBUG) /\ opcode \notin DOMAIN nf

\* the map after `return NodeFunctions[opcode]`: operator[] inserts a
\* default-constructed (empty) function for a missing key
GetMap(nf, opcode) ==
    IF opcode \in DOMAIN nf THEN nf
    ELSE [o \in (DOMAIN nf) \cup {opcode} |-> IF o = opcode THEN Empty ELSE nf[o]]

\* the function Get returns a reference to
GetFn(nf, opcode) == GetMap(nf, opcode)[opcode]

\* the three RegisterNode calls of RegisterCoreNodes
RegisterCoreNodesMap(nf) ==
    RegisterNodeMap(
        RegisterNodeMap(
            RegisterNodeMap(nf, TX_OP_ADD_FLOAT, AddFloat),
            TX_OP_MUL_FLOAT, MulFloat),
        TX_OP_PRINT_FLOAT, PrintFloat)

\* ------------------------------------------------------------------------
\* Node behaviours: the value written to *Out, given In[0] and In[1]
\* ------------------------------------------------------------------------

AddFloatOut(In0, In1) == FloatValue(In0.Float + In1.Float)

MulFloatOut(In0, In1) == FloatValue(In0.Float * In1.Float)

\* the Stack after Fn(Context, &Stack[base], &Stack[base]) returns
CallNode(fn, stack, base) ==
    CASE fn = AddFloat ->
            [stack EXCEPT ![base] = AddFloatOut(stack[base], stack[base + 1])]
      [] fn = MulFloat ->
            [stack EXCEPT ![base] = MulFloatOut(stack[base], stack[base + 1])]
      [] fn = PrintFloat -> stack

\* the Stack indices the behaviour writes through Out: PRINT_FLOAT leaves
\* its Out parameter unnamed and unused
Writes(fn, base) ==
    IF fn = PrintFloat THEN {} ELSE {base}

\* the Stack indices the behaviour touches through In and Out
Touched(fn, base) ==
    IF fn = PrintFloat THEN {base} ELSE {base, base + 1}

\* what the behaviour sends to printf
Output(fn, stack, base) ==
    IF fn = PrintFloat THEN << stack[base].Float >> ELSE << >>

\* ------------------------------------------------------------------------
\* TXBlueprintVM::Execute
\* ------------------------------------------------------------------------

NextIP_Skip(ip) == ip + 2

NextIP_Stuck(ip) == ip

\* Op = *IP++
NextIP(ip) == ip + 1

Window_OffByOne(sp) == sp - 1

\* &Stack[SP - 2]
Window(sp) == sp - 2

InitialSP_Bytes == StackCapacity * 16

InitialSP_Two == 1 + 1

\* int SP = 0
InitialSP == 0

NextSP_Kept(sp) == sp

\* SP--
NextSP(sp) == sp - 1

ProcessAlive == state \notin {"AssertAbort", "MemoryFault", "LookupAbort"}

Halted == state \in {"HaltedNormal", "AssertAbort", "BadFunctionCall", "MemoryFault"}

\* what the call hands back to its caller: Execute returns void, and the
\* only thing that can leave it is the std::bad_function_call thrown by an
\* empty std::function, which names no opcode
ReportedFault ==
    IF state = "BadFunctionCall"
    THEN [kind |-> "bad_function_call", opcodes |-> {}]
    ELSE [kind |-> "none", opcodes |-> {}]

\* no second call exists
NoOther == [state |-> "Absent", IP |-> 0, SP |-> 0, Stack |-> << >>,
            dispatched |-> << >>]

\* abort() and a fatal signal end the whole process: a call that is still
\* running in another thread is cut off where it stands
Killed(call) ==
    IF call.state = "Running" THEN [call EXCEPT !.state = "Killed"] ELSE call

\* the host may call into the engine: no Execute is on the call stack
Idle == state = "Ready"

Init ==
    /\ NDEBUG \in BOOLEAN
    /\ NodeFunctions = EmptyMap
    /\ state = "Ready"
    /\ Instructions = << >>
    /\ IP = 0
    /\ SP = 0
    /\ Stack = IdleStack
    /\ dispatched = << >>
    /\ accessed = {}
    /\ printed = << >>
    /\ lookupResult = << >>
    /\ overwrote = FALSE
    /\ lastRegistered = [o \in OpCodes |-> None]
    /\ regAtCall = EmptyMap
    /\ example = FALSE
    /\ other = NoOther

\* TXNodeRegistry::Instance().RegisterNode(opcode, fn)
RegisterNode(opcode, fn) ==
    /\ Idle
    /\ NodeFunctions' = RegisterNodeMap(NodeFunctions, opcode, fn)
    /\ lastRegistered' = [lastRegistered EXCEPT ![opcode] = fn]
    /\ lookupResult' = << >>
    /\ overwrote' = (opcode \in DOMAIN NodeFunctions
                      /\ NodeFunctions[opcode] \in Behaviours \ {fn})
    /\ UNCHANGED << NDEBUG, state, execVars >>

\* RegisterCoreNodes()
RegisterCoreNodes ==
    /\ Idle
    /\ NodeFunctions' = RegisterCoreNodesMap(NodeFunctions)
    /\ lastRegistered' = [lastRegistered EXCEPT ![TX_OP_ADD_FLOAT] = AddFloat,
                                                ![TX_OP_MUL_FLOAT] = MulFloat,
                                                ![TX_OP_PRINT_FLOAT] = PrintFloat]
    /\ lookupResult' = << >>
    /\ overwrote' = FALSE
    /\ UNCHANGED << NDEBUG, state, execVars >>

\* TXNodeRegistry::Instance().Get(opcode), called by the host
Lookup(opcode) ==
    /\ Idle
    /\ IF GetAborts(NodeFunctions, opcode)
       THEN /\ state' = "LookupAbort"
            /\ lookupResult' = << >>
            /\ UNCHANGED NodeFunctions
       ELSE /\ NodeFunctions' = GetMap(NodeFunctions, opcode)
            /\ lookupResult' = << [opcode |-> opcode, fn |-> GetFn(NodeFunctions, opcode)] >>
            /\ UNCHANGED state
    /\ UNCHANGED << NDEBUG, overwrote, lastRegistered, execVars >>

\* entry of Execute: IP = Instructions.data(), TXValue Stack[64], SP = 0
EnterExecute(nf, program, shift, byExample) ==
    /\ state' = "Running"
    /\ Instructions' = program
    /\ IP' = 0
    /\ SP' = InitialSP
    /\ Stack' = FreshStack(shift)
    /\ dispatched' = << >>
    /\ accessed' = {}
    /\ printed' = << >>
    /\ regAtCall' = nf
    /\ example' = byExample
    /\ lookupResult' = << >>
    /\ overwrote' = FALSE

\* VM.Execute(Bytecode, Context), called by the host
BeginExecute(program, shift) ==
    /\ Idle
    /\ EnterExecute(NodeFunctions, program, shift, FALSE)
    /\ UNCHANGED << NDEBUG, NodeFunctions, lastRegistered, other >>

\* two threads call VM.Execute(Bytecode, Context) on the same program, each
\* with its own TXBlueprintVM frame (its own Stack and SP)
BeginPair(program, shift, shiftOther) ==
    /\ Idle
    /\ EnterExecute(NodeFunctions, program, shift, FALSE)
    /\ other' = [state |-> "Running", IP |-> 0, SP |-> InitialSP,
                 Stack |-> FreshStack(shiftOther), dispatched |-> << >>]
    /\ UNCHANGED << NDEBUG, NodeFunctions, lastRegistered >>

\* ExampleBlueprint(): RegisterCoreNodes, then Execute of the three opcodes
ExampleBlueprint(shift) ==
    /\ Idle
    /\ NodeFunctions' = RegisterCoreNodesMap(NodeFunctions)
    /\ lastRegistered' = [lastRegistered EXCEPT ![TX_OP_ADD_FLOAT] = AddFloat,
                                                ![TX_OP_MUL_FLOAT] = MulFloat,
                                                ![TX_OP_PRINT_FLOAT] = PrintFloat]
    /\ EnterExecute(RegisterCoreNodesMap(NodeFunctions),
                    << TX_OP_ADD_FLOAT, TX_OP_MUL_FLOAT, TX_OP_PRINT_FLOAT >>,
                    shift, TRUE)
    /\ UNCHANGED << NDEBUG, other >>

\* one iteration of while (IP < End)
Step ==
    /\ state = "Running"
    /\ IP < Len(Instructions)
    /\ LET Op   == Instructions[IP + 1]
           Fn   == GetFn(NodeFunctions, Op)
           base == Window(SP)
           call == [op |-> Op, fn |-> Fn, at |-> IP, depth |-> SP, base |-> base,
                    In0 |-> Stack[base], In1 |-> Stack[base + 1],
                    wrote |-> Writes(Fn, base)]
       IN  /\ IP' = NextIP(IP)
           /\ IF GetAborts(NodeFunctions, Op)
              THEN \* the assertion fails: abort()
                   /\ state' = "AssertAbort"
                   /\ UNCHANGED << NodeFunctions, SP, Stack, dispatched, accessed, printed >>
              ELSE /\ NodeFunctions' = GetMap(NodeFunctions, Op)
                   /\ IF Fn = Empty
                      THEN /\ \/ \* calling an empty std::function throws
                                 state' = "BadFunctionCall"
                              \/ \* the insertion races with the Get of the
                                 \* call in the other thread
                                 /\ Op \notin DOMAIN NodeFunctions
                                 /\ other.state = "Running"
                                 /\ state' = "MemoryFault"
                           /\ UNCHANGED << SP, Stack, dispatched, accessed, printed >>
                      ELSE /\ dispatched' = Append(dispatched, call)
                           /\ accessed' = accessed \cup Touched(Fn, base)
                           /\ \/ \* the behaviour runs on the window and returns
                                 /\ Stack' = CallNode(Fn, Stack, base)
                                 /\ printed' = printed \o Output(Fn, Stack, base)
                                 /\ SP' = NextSP(SP)
                                 /\ UNCHANGED state
                              \/ \* the window lies outside the array: the
                                 \* access may also kill the process
                                 /\ ~(Touched(Fn, base) \subseteq StackSlots)
                                 /\ state' = "MemoryFault"
                                 /\ UNCHANGED << SP, Stack, printed >>
    /\ other' = IF state' \in {"AssertAbort", "MemoryFault"} THEN Killed(other) ELSE other
    /\ UNCHANGED << NDEBUG, Instructions, lookupResult, overwrote, lastRegistered,
                    regAtCall, example >>

\* one iteration of while (IP < End) in the second call
StepOther ==
    /\ other.state = "Running"
    /\ other.IP < Len(Instructions)
    /\ LET Op   == Instructions[other.IP + 1]
           Fn   == GetFn(NodeFunctions, Op)
           base == Window(other.SP)
           call == [op |-> Op, fn |-> Fn, at |-> other.IP, depth |-> other.SP,
                    base |-> base,
                    In0 |-> other.Stack[base], In1 |-> other.Stack[base + 1],
                    wrote |-> Writes(Fn, base)]
           ends(st) == [other EXCEPT !.state = st, !.IP = NextIP(other.IP)]
       IN  IF GetAborts(NodeFunctions, Op)
           THEN /\ other' = ends("AssertAbort")
                /\ UNCHANGED NodeFunctions
           ELSE /\ NodeFunctions' = GetMap(NodeFunctions, Op)
                /\ IF Fn = Empty
                   THEN \/ other' = ends("BadFunctionCall")
                        \/ /\ Op \notin DOMAIN NodeFunctions
                           /\ state = "Running"
                           /\ other' = ends("MemoryFault")
                   ELSE \/ other' = [other EXCEPT
                                        !.IP = NextIP(other.IP),
                                        !.SP = NextSP(other.SP),
                                        !.Stack = CallNode(Fn, other.Stack, base),
                                        !.dispatched = Append(other.dispatched, call)]
                        \/ /\ ~(Touched(Fn, base) \subseteq StackSlots)
                           /\ other' = [ends("MemoryFault") EXCEPT
                                           !.dispatched = Append(other.dispatched, call)]
    /\ state' = IF other'.state \in {"AssertAbort", "MemoryFault"} /\ state = "Running"
                THEN "Killed" ELSE state
    /\ UNCHANGED << NDEBUG, Instructions, IP, SP, Stack, dispatched, accessed, printed,
                    lookupResult, overwrote, lastRegistered, regAtCall, example >>

\* IP == End in the second call
FinishOther ==
    /\ other.state = "Running"
    /\ other.IP >= Len(Instructions)
    /\ other' = [other EXCEPT !.state = "HaltedNormal"]
    /\ UNCHANGED << NDEBUG, NodeFunctions, state, Instructions, IP, SP, Stack,
                    dispatched, accessed, printed, lookupResult, overwrote,
                    lastRegistered, regAtCall, example >>

\* IP == End: the loop ends and Execute returns
Finish ==
    /\ state = "Running"
    /\ IP >= Len(Instructions)
    /\ state' = "HaltedNormal"
    /\ UNCHANGED << NDEBUG, NodeFunctions, lookupResult, overwrote, lastRegistered,
                    execVars >>

\* the caller goes on after the call (after catching bad_function_call):
\* the locals of Execute are gone
Return ==
    /\ state \in {"HaltedNormal", "BadFunctionCall"}
    /\ state' = "Ready"
    /\ Instructions' = << >>
    /\ IP' = 0
    /\ SP' = 0
    /\ Stack' = IdleStack
    /\ dispatched' = << >>
    /\ accessed' = {}
    /\ printed' = << >>
    /\ regAtCall' = EmptyMap
    /\ example' = FALSE
    /\ UNCHANGED << NDEBUG, NodeFunctions, lookupResult, overwrote, lastRegistered, other >>

Next ==
    \/ \E opcode \in OpCodes, fn \in Behaviours : RegisterNode(opcode, fn)
    \/ RegisterCoreNodes
    \/ \E opcode \in OpCodes : Lookup(opcode)
    \/ \E program \in Programs, shift \in GarbageShifts : BeginExecute(program, shift)
    \/ \E shift \in GarbageShifts : ExampleBlueprint(shift)
    \/ Step
    \/ Finish
    \/ Return

Spec == Init /\ [][Next]_vars

\* the operations of Next, with RegisterNode(opcode, PrintFloat) as the
\* registrations made besides RegisterCoreNodes
LiveNext ==
    \/ \E opcode \in OpCodes : RegisterNode(opcode, PrintFloat)
    \/ RegisterCoreNodes
    \/ \E opcode \in OpCodes : Lookup(opcode)
    \/ \E program \in Programs, shift \in GarbageShifts : BeginExecute(program, shift)
    \/ \E shift \in GarbageShifts : ExampleBlueprint(shift)
    \/ Step
    \/ Finish
    \/ Return

\* Execute runs to completion once entered: it is a synchronous call
LiveSpec == Init /\ [][LiveNext]_vars /\ WF_vars(Step) /\ WF_vars(Finish)

\* two Execute calls of one program over the shared registry, in any
\* interleaving of their loop iterations (the second call entirely after
\* the first included); no RegisterNode runs once the calls are made
PairNext ==
    \/ RegisterCoreNodes
    \/ \E opcode \in OpCodes : RegisterNode(opcode, PrintFloat)
    \/ \E program \in Programs, shift \in GarbageShifts, shiftOther \in GarbageShifts :
          BeginPair(program, shift, shiftOther)
    \/ Step
    \/ StepOther
    \/ Finish
    \/ FinishOther

PairSpec == Init /\ [][PairNext]_vars

TypeOK ==
    /\ NDEBUG \in BOOLEAN
    /\ DOMAIN NodeFunctions \subseteq OpCodes
    /\ \A o \in DOMAIN NodeFunctions : NodeFunctions[o] \in Behaviours \cup {Empty}
    /\ state \in {"Ready", "Running", "HaltedNormal", "AssertAbort",
                  "BadFunctionCall", "MemoryFault", "LookupAbort", "Killed"}
    /\ other.state \in {"Absent", "Running", "HaltedNormal", "AssertAbort",
                        "BadFunctionCall", "MemoryFault", "Killed"}
    /\ Instructions \in Programs
    /\ IP \in 0 .. MaxProgLen
    /\ SP \in (0 - MaxProgLen) .. StackCapacity
    /\ DOMAIN Stack = MemIndex

\* ------------------------------------------------------------------------
\* Properties
\* ------------------------------------------------------------------------

\* C1: a program whose first opcode is dispatched on an empty stack (depth
\* 0, fewer than the 2 inputs it needs) ends in a StackUnderflow fault, and
\* no Stack slot with an index outside 0..63 is ever read or written.
C1_UnderflowFaults ==
    /\ accessed \subseteq StackSlots
    /\ (Halted /\ Len(dispatched) >= 1 /\ dispatched[1].depth < 2)
          => state = "StackUnderflow"

\* C2: a program that contains an opcode with no Registry binding faults
\* with UnknownOpcode at that instruction, and no node behaviour is
\* dispatched for that instruction or for any later one.
C2_UnknownOpcodeStops ==
    LET unbound == {i \in 1 .. Len(Instructions) : Instructions[i] \notin DOMAIN regAtCall}
    IN  (Halted /\ unbound # {}) =>
            LET k == CHOOSE i \in unbound : \A j \in unbound : i <= j
            IN  /\ ReportedFault.kind = "UnknownOpcode"
                /\ IP = k
                /\ Len(dispatched) = k - 1

\* C3: executing the program [UnregisteredOp] returns from Execute with the
\* fault UnknownOpcode(UnregisteredOp), naming the opcode and the fault
\* kind, and the process is not terminated.
C3_UnknownOpcodeReported ==
    (Halted /\ Len(Instructions) = 1 /\ Instructions[1] \notin DOMAIN regAtCall) =>
        /\ ProcessAlive
        /\ ReportedFault.kind = "UnknownOpcode"
        /\ ReportedFault.opcodes = {Instructions[1]}

\* every opcode of the running program had a behaviour bound at the call
AllRegistered ==
    \A i \in 1 .. Len(Instructions) :
        /\ Instructions[i] \in DOMAIN regAtCall
        /\ regAtCall[Instructions[i]] \in Behaviours

C5_AddMulScenario ==
    ( /\ Instructions = << TX_OP_ADD_FLOAT, TX_OP_MUL_FLOAT >>
      /\ TX_OP_ADD_FLOAT \in DOMAIN regAtCall
      /\ TX_OP_MUL_FLOAT \in DOMAIN regAtCall
      /\ regAtCall[TX_OP_ADD_FLOAT] = AddFloat
      /\ regAtCall[TX_OP_MUL_FLOAT] = MulFloat ) =>
        /\ (state = "Running" /\ IP = 1) =>
                SP = 2 /\ Stack[0] = FloatValue(5) /\ Stack[1] = FloatValue(4)
        /\ (state = "Running" /\ IP = 2) =>
                SP = 1 /\ Stack[0] = FloatValue(20)
        /\ Halted =>
                state = "HaltedNormal" /\ SP = 1 /\ Stack[0] = FloatValue(20)

\* C6: ExampleBlueprint computes print((2.0 + 3.0) * 4.0): each of its
\* three dispatches finds 2 valid input values on the stack, and the value
\* handed to PRINT_FLOAT as In[0] is 20.0.
C6_ExamplePrints20 ==
    example =>
        /\ \A i \in 1 .. Len(dispatched) :
              /\ dispatched[i].depth >= 2
              /\ {dispatched[i].base, dispatched[i].base + 1} \subseteq StackSlots
              /\ dispatched[i].fn = PrintFloat => dispatched[i].In0 = FloatValue(20)
        /\ Halted =>
              /\ state = "HaltedNormal"
              /\ Len(dispatched) = 3
              /\ printed = << 20 >>

\* C7: execution order is program order: the behaviours dispatched by one
\* Execute call are Registry[Instructions[0]], Registry[Instructions[1]],
\* ... in that order, each instruction once, and a call that ends normally
\* has dispatched every instruction.
C7_ProgramOrder ==
    /\ Len(dispatched) <= Len(Instructions)
    /\ \A i \in 1 .. Len(dispatched) :
          /\ dispatched[i].at = i - 1
          /\ dispatched[i].op = Instructions[i]
          /\ Instructions[i] \in DOMAIN regAtCall
          /\ dispatched[i].fn = regAtCall[Instructions[i]]
    /\ state = "HaltedNormal" => Len(dispatched) = Len(Instructions)

C7_Witness ==
    /\ state = "HaltedNormal"
    /\ Len(dispatched) = 3
    /\ dispatched[1].fn # dispatched[2].fn
    /\ dispatched[2].fn # dispatched[3].fn

\* C8: Execute terminates: a running call reaches a halted state, it
\* dispatches at most len(Instructions) behaviours, and the instruction
\* pointer only moves forward, one instruction per dispatch.
C8_Termination ==
    /\ [](IP <= Len(Instructions) /\ Len(dispatched) <= IP)
    /\ [][state = "Running" /\ state' # "Ready" => IP' >= IP]_vars
    /\ (state = "Running") ~> Halted

C8_Witness ==
    /\ Halted
    /\ Len(Instructions) = MaxProgLen
    /\ IP = Len(Instructions)

\* C9: last write wins: Get(op) returns the behaviour of the most recent
\* RegisterNode(op, _), and RegisterNode(op, g) leaves the binding of every
\* other opcode unchanged.
C9_LastWriteWins ==
    /\ [](\A o \in OpCodes : lastRegistered[o] # None =>
              /\ ~GetAborts(NodeFunctions, o)
              /\ GetFn(NodeFunctions, o) = lastRegistered[o])
    /\ [](\A i \in 1 .. Len(lookupResult) :
              lastRegistered[lookupResult[i].opcode] # None =>
                  lookupResult[i].fn = lastRegistered[lookupResult[i].opcode])
    /\ [][\A op \in OpCodes, g \in Behaviours : RegisterNode(op, g) =>
              /\ NodeFunctions'[op] = g
              /\ \A o \in (DOMAIN NodeFunctions) \ {op} :
                    NodeFunctions'[o] = NodeFunctions[o]]_vars

C9_Witness ==
    /\ overwrote
    /\ Len(lookupResult) = 1
    /\ lookupResult[1].fn = lastRegistered[lookupResult[1].opcode]

\* C10: Execute leaves the Registry unchanged: when a call has halted, with
\* or without a fault, the opcode-to-behaviour bindings are those the
\* Registry had when the call was made.
C10_RegistryUntouched ==
    Halted => NodeFunctions = regAtCall

\* C13: registry monotonicity: across Register, Lookup and Execute, the set
\* of opcodes that have a binding never loses an element.
C13_RegistryMonotone ==
    [][(DOMAIN NodeFunctions) \subseteq (DOMAIN NodeFunctions')]_vars

C13_Witness ==
    /\ state = "BadFunctionCall"
    /\ DOMAIN regAtCall # {}
    /\ DOMAIN regAtCall # DOMAIN NodeFunctions
    /\ (DOMAIN regAtCall) \subseteq (DOMAIN NodeFunctions)

C15_FloatReadsAreFloat ==
    \A i \in 1 .. Len(dispatched) :
        /\ dispatched[i].In0.Type = "Float"
        /\ dispatched[i].fn # PrintFloat => dispatched[i].In1.Type = "Float"

\* C16: every core node behaviour writes exactly 1 output value on each
\* invocation: after a dispatch the output cell was written by the
\* behaviour, it is not a leftover input.
C16_OneOutputWritten ==
    \A i \in 1 .. Len(dispatched) :
        dispatched[i].wrote = {dispatched[i].base}

Ended == {"HaltedNormal", "AssertAbort", "BadFunctionCall", "MemoryFault"}

\* C11: concurrent Execute calls do not interfere: with two calls
\* interleaved over the same program and Registry and no Register call in
\* between, each call runs its own dispatch sequence to its own end, and
\* two calls that end normally have dispatched the same behaviours and
\* hold the same final stack.
C11_NoInterference ==
    /\ state # "Killed"
    /\ other.state # "Killed"
    /\ (state = "HaltedNormal" /\ other.state = "HaltedNormal") =>
          /\ dispatched = other.dispatched
          /\ Stack = other.Stack

\* C12: determinism: two Execute runs of the same program with the same
\* Registry bindings, once both have ended, have made the same dispatches
\* (same behaviours on the same input values), reached the same terminal
\* state and left the same stack contents.
C12_Deterministic ==
    (state \in Ended /\ other.state \in Ended) =>
        /\ state = other.state
        /\ dispatched = other.dispatched
        /\ SP = other.SP
        /\ \A i \in 0 .. (SP - 1) : Stack[i] = other.Stack[i]

====
